---- MODULE Spec2Model ----
(***************************************************************************)
(* The Event resource controller (server/api/event/event.controller.js):   *)
(* ten request handlers, each a promise chain over one or two calls to the *)
(* Event collection, and the five helpers the chains are built from.       *)
(*                                                                         *)
(* A request in flight moves  call -> settle -> (call -> settle ->) done : *)
(* the handler's synchronous part issues a store call, the store performs  *)
(* it at some later moment (an Event* action), and the then/catch          *)
(* callbacks of the chain run after that (a Settle* action).  Two requests *)
(* may be in flight at once and their steps interleave freely.             *)
(*                                                                         *)
(* The collaborators that are not part of the file (the Event model of     *)
(* mongoose, fast-json-patch, the express response) are modelled at the    *)
(* call sites by what the calls do to the collection, to the in-memory     *)
(* document and to the response.                                           *)
(***************************************************************************)
EXTENDS Integers, Sequences, FiniteSets, TLC

\* ------------------------------------------------------------------ bounds
\* Requests started in one behaviour.
MaxRequests == 2

\* Request slots: at most two requests are in flight at a time.
Reqs == {"r1", "r2"}

\* ------------------------------------------------------------ the universe
\* Identifiers: "a" is stored from the start, "b" is not.
Ids == {"a", "b"}
Users == {"u1", "u2"}
\* A value that is no reference to a User (fails the cast of the schema).
BadUser == "not-an-id"
\* A present but falsy identifier, as in {_id: ""}.
FalsyId == ""

\* Event names, as character sequences.
LaunchParty == <<"L", "p">>
Renamed == <<"R">>
Other == <<"P", "l">>
Names == {LaunchParty, Renamed, Other}

\* Texts of GET .../search/:text ; "[" alone is no regular expression.
Texts == <<  <<"l">>, <<"P">>, <<"x">>, <<"[">>  >>

UsersColl == [u \in Users |-> [_id |-> u, name |-> <<"n", u>>, imageUrl |-> <<"i", u>>]]

EventA ==
  [_id |-> "a", __v |-> 0, name |-> LaunchParty, host |-> "u1",
   participants |-> << [user |-> "u2"] >>, favoritesBy |-> {"u2"}]

\* What the schema fills in on insert for the fields a payload leaves out.
SchemaDefaults ==
  [__v |-> 0, name |-> LaunchParty, host |-> "u1", participants |-> << >>, favoritesBy |-> {}]

\* Request bodies of POST and PUT (a tuple, indexed by the actions).
Bodies ==
  << [name |-> Renamed],
     [_id |-> "b", name |-> Renamed],
     [_id |-> FalsyId, name |-> Renamed],
     [host |-> BadUser],
     [name |-> Other, host |-> "u2"] >>

\* JSON-Patch operations: two valid ones on /name, one on the identifier,
\* one whose path does not exist, one whose value violates the schema type.
SetRenamed == [op |-> "replace", path |-> "/name", value |-> Renamed]
SetOther == [op |-> "replace", path |-> "/name", value |-> Other]
SetId == [op |-> "replace", path |-> "/_id", value |-> "b"]
NoSuchPath == [op |-> "replace", path |-> "/nosuch", value |-> "x"]
BadHost == [op |-> "replace", path |-> "/host", value |-> BadUser]

\* Request bodies of PATCH: ordered operation lists (a tuple, indexed by the
\* actions), the invalid operation first, last and alone.
PatchBodies ==
  << << >>,
     << SetRenamed >>,
     << SetOther >>,
     << SetId >>,
     << SetId, SetRenamed >>,
     << NoSuchPath >>,
     << SetRenamed, NoSuchPath >>,
     << NoSuchPath, SetRenamed >>,
     << BadHost >>,
     << SetRenamed, BadHost >>,
     << BadHost, SetOther >> >>

PathKey(path) ==
  CASE path = "/name" -> "name"
    [] path = "/host" -> "host"
    [] path = "/_id" -> "_id"
    [] OTHER -> "nosuch"

\* ----------------------------------------------------------- tagged values
Null == [t |-> "null"]
Empty == [t |-> "empty"]
DocV(d) == [t |-> "doc", doc |-> d]
ListV(ds) == [t |-> "list", docs |-> ds]
ErrV(n) == [t |-> "err", name |-> n]
Ok(v) == [ok |-> TRUE, value |-> v]
Rejected(n) == [ok |-> FALSE, value |-> ErrV(n)]
NoResult == [ok |-> TRUE, value |-> [t |-> "pending"]]

\* JavaScript truthiness of what a chain passes on: null and undefined are
\* falsy; a document and an array (the empty one too) are truthy.
Truthy(v) == v.t \in {"doc", "list"}

VARIABLES
  store,     \* the Event collection: a set of documents, one per _id
  reqs,      \* slot -> the request in flight in it (or the last one, done)
  started    \* number of requests started so far

vars == <<store, reqs, started>>

StoredIds(s) == {d._id : d \in s}
Lookup(s, id) == IF id \in StoredIds(s)
                   THEN DocV(CHOOSE d \in s : d._id = id)
                   ELSE Null

\* The schema's types, checked by the validators of create / update / save.
ValidDoc(d) ==
  /\ d._id \in Ids
  /\ d.name \in Names
  /\ d.host \in Users
ValidFields(u) ==
  /\ "name" \in DOMAIN u => u.name \in Names
  /\ "host" \in DOMAIN u => u.host \in Users

\* req.params / req.body, the position in the chain (pc, call, result), the
\* value the chain carries (entity), and what was written to res.  `sent` is
\* the body as the client sent it, before the handler touched it.
Idle ==
  [op |-> "none", params |-> "", sent |-> << >>, body |-> << >>, pc |-> "idle",
   call |-> "none", result |-> NoResult, entity |-> Null, res |-> << >>,
   threw |-> FALSE]

\* ------------------------------------------------- the helpers (lines 16-65)
\* res.status(code).json(body) / .send(body) / .end(): one more write.
Write(res, code, body) == Append(res, [status |-> code, body |-> body])

\* What JSON.stringify makes of the value a chain carries.
ToJSON(v) == IF v.t = "doc" THEN DocV(v.doc) ELSE v

\* respondWithResult(res, statusCode)(entity); statusCode 0 is "not given".
respondWithResult(res, statusCode, entity) ==
  LET code == IF statusCode = 0 THEN 200 ELSE statusCode
  IN  IF Truthy(entity) THEN Write(res, code, ToJSON(entity)) ELSE res

\* handleEntityNotFound(res)(entity): the response, and the value passed on.
handleEntityNotFound(res, entity) ==
  IF ~Truthy(entity)
    THEN [res |-> Write(res, 404, Empty), value |-> Null]
    ELSE [res |-> res, value |-> entity]

\* handleError(res, statusCode)(err); statusCode 0 is "not given".
handleError(res, statusCode, err) ==
  LET code == IF statusCode = 0 THEN 500 ELSE statusCode
  IN  Write(res, code, err)

\* A document as the model hands it out: the fields and the modified paths;
\* `fetched` keeps the fields as they were read, for the properties below.
Hydrate(d) == [t |-> "doc", doc |-> d, dirty |-> {}, fetched |-> d]

\* Mutant of jsonpatchApply: validate = false; an operation whose path does
\* not resolve is skipped instead of throwing.
RECURSIVE jsonpatchApplyUnvalidated(_, _)
jsonpatchApplyUnvalidated(entity, patches) ==
  IF patches = << >> THEN [threw |-> FALSE, entity |-> entity]
  ELSE LET p == Head(patches)
           key == PathKey(p.path)
       IN  IF key \notin DOMAIN entity.doc
             THEN jsonpatchApplyUnvalidated(entity, Tail(patches))
             ELSE jsonpatchApplyUnvalidated(
                    [entity EXCEPT
                       !.doc = [f \in DOMAIN entity.doc |->
                                  IF f = key THEN p.value ELSE entity.doc[f]],
                       !.dirty = IF entity.doc[key] = p.value
                                   THEN @ ELSE @ \cup {key}],
                    Tail(patches))

\* jsonpatch.apply(entity, patches, validate = true): the operations are
\* applied to the in-memory document one after the other; an operation whose
\* path does not resolve in the document throws, leaving the earlier ones
\* applied in memory.  An assignment that changes a value marks the path
\* modified.  Result: the entity, and whether the call threw.
RECURSIVE jsonpatchApply(_, _)
jsonpatchApply(entity, patches) ==
  IF patches = << >> THEN [threw |-> FALSE, entity |-> entity]
  ELSE LET p == Head(patches)
           key == PathKey(p.path)
       IN  IF key \notin DOMAIN entity.doc
             THEN [threw |-> TRUE, entity |-> entity]
             ELSE jsonpatchApply(
                    [entity EXCEPT
                       !.doc = [f \in DOMAIN entity.doc |->
                                  IF f = key THEN p.value ELSE entity.doc[f]],
                       !.dirty = IF entity.doc[key] = p.value
                                   THEN @ ELSE @ \cup {key}],
                    Tail(patches))

\* patchUpdates(patches)(entity) up to the call of entity.save():
\* "reject" with the error, or "save" with the mutated entity.  On a null
\* entity the patch library or, for a list it accepts, null.save() throws.
patchUpdates(patches, entity) ==
  IF ~Truthy(entity)
    THEN [next |-> "reject", err |-> ErrV("TypeError"), entity |-> entity]
    ELSE LET applied == jsonpatchApply(entity, patches)
         IN  IF applied.threw
               THEN [next |-> "reject", err |-> ErrV("JsonPatchError"),
                     entity |-> applied.entity]
               ELSE [next |-> "save", err |-> Null, entity |-> applied.entity]

\* ------------------------------------------------ the Event model's calls
ToLower(c) == CASE c = "L" -> "l" [] c = "P" -> "p" [] c = "R" -> "r" [] OTHER -> c

\* new RegExp(text, 'i') throws a SyntaxError on an unterminated class.
RegExpValid(text) == \A i \in 1..Len(text) : text[i] # "["

\* { name: { $regex: new RegExp(text, 'i') } }: case-insensitive containment.
RegExpTest(text, name) ==
  \E i \in 1..(Len(name) - Len(text) + 1) :
     \A j \in 1..Len(text) : ToLower(name[i + j - 1]) = ToLower(text[j])

\* populate({path: 'host', select: [_id, name, imageUrl]})
PopulateHost(d) == [d EXCEPT !.host = UsersColl[d.host]]
\* populate({path: 'participants.user', select: [_id, name, imageUrl]})
PopulateParticipants(d) ==
  [d EXCEPT !.participants =
     [i \in DOMAIN d.participants |-> [user |-> UsersColl[d.participants[i].user]]]]

\* The filter of each list handler.
Matches(op, params, d) ==
  CASE op = "index" -> TRUE
    [] op = "search" -> RegExpTest(params, d.name)
    [] op = "hosting" -> d.host = params
    [] op = "going" -> \E i \in DOMAIN d.participants : d.participants[i].user = params
    [] op = "favorite" -> params \in d.favoritesBy

\* Mutant of EventFind: the query is made with an update that marks every
\* document it returns as read (here by its version).
EventFindTouching(s, op, params) ==
  [store |-> {IF Matches(op, params, d) THEN [d EXCEPT !.__v = @ + 1] ELSE d : d \in s},
   outcome |-> Ok(ListV({PopulateHost(d) : d \in {e \in s : Matches(op, params, e)}}))]

\* Event.find(filter).populate(host).exec()
EventFind(s, op, params) ==
  [store |-> s,
   outcome |-> Ok(ListV({PopulateHost(d) : d \in {e \in s : Matches(op, params, e)}}))]

\* Event.findById(id)[.populate(...)].exec()
EventFindById(s, id, populate) ==
  LET found == Lookup(s, id)
  IN  [store |-> s,
       outcome |-> Ok(IF found.t = "null" THEN Null
                      ELSE IF populate
                        THEN Hydrate(PopulateParticipants(PopulateHost(found.doc)))
                        ELSE Hydrate(found.doc))]

WithFields(d, u) == [f \in DOMAIN d |-> IF f \in DOMAIN u THEN u[f] ELSE d[f]]

\* Event.create(body): the store assigns `fresh` unless the payload names an
\* identifier; validation and the unique index on _id may reject.
EventCreate(s, body, fresh) ==
  LET id == IF "_id" \in DOMAIN body THEN body._id ELSE fresh
      d == WithFields([_id |-> id] @@ SchemaDefaults, body)
  IN  IF ~ValidDoc(d) THEN [store |-> s, outcome |-> Rejected("ValidationError")]
      ELSE IF id \in StoredIds(s)
        THEN [store |-> s, outcome |-> Rejected("MongoError")]
        ELSE [store |-> s \cup {d}, outcome |-> Ok(Hydrate(d))]

\* Mutant of EventFindOneAndUpdate: without upsert: true nothing is inserted
\* for an absent identifier and the call resolves with null.
EventFindOneAndUpdateNoUpsert(s, id, update) ==
  IF "_id" \in DOMAIN update THEN [store |-> s, outcome |-> Rejected("MongoError")]
  ELSE IF ~ValidFields(update)
    THEN [store |-> s, outcome |-> Rejected("ValidationError")]
  ELSE IF id \in StoredIds(s)
    THEN LET old == CHOOSE d \in s : d._id = id
             new == WithFields(old, update)
         IN  [store |-> (s \ {old}) \cup {new}, outcome |-> Ok(Hydrate(new))]
    ELSE [store |-> s, outcome |-> Ok(Null)]

\* Event.findOneAndUpdate({_id: id}, update, {new, upsert, setDefaultsOnInsert,
\* runValidators}): one atomic store operation.  An update that still names
\* _id is refused (the identifier cannot be set); the validators run on the
\* updated paths.
EventFindOneAndUpdate(s, id, update) ==
  IF "_id" \in DOMAIN update THEN [store |-> s, outcome |-> Rejected("MongoError")]
  ELSE IF ~ValidFields(update)
    THEN [store |-> s, outcome |-> Rejected("ValidationError")]
  ELSE IF id \in StoredIds(s)
    THEN LET old == CHOOSE d \in s : d._id = id
             new == WithFields(old, update)
         IN  [store |-> (s \ {old}) \cup {new}, outcome |-> Ok(Hydrate(new))]
    ELSE LET new == WithFields([_id |-> id] @@ SchemaDefaults, update)
         IN  [store |-> s \cup {new}, outcome |-> Ok(Hydrate(new))]

\* Mutant of EntitySave: optimistic concurrency: a save finds the stored
\* document at another version than the one fetched and fails; a save that
\* writes increments the version.
EntitySaveVersioned(s, entity) ==
  IF ~ValidDoc(entity.doc)
    THEN [store |-> s, outcome |-> Rejected("ValidationError")]
  ELSE IF \E d \in s : d._id = entity.doc._id /\ d.__v # entity.doc.__v
    THEN [store |-> s, outcome |-> Rejected("VersionError")]
    ELSE [store |-> {IF d._id = entity.doc._id /\ entity.dirty # {}
                       THEN [f \in DOMAIN d |->
                               IF f = "__v" THEN d.__v + 1
                               ELSE IF f \in entity.dirty THEN entity.doc[f] ELSE d[f]]
                       ELSE d : d \in s},
          outcome |-> Ok(entity)]

\* entity.save() of a fetched document: validate; then, when paths were
\* modified, update {_id: entity._id} setting exactly those paths.  Nothing
\* is compared with what was fetched, and an update that matches no document
\* is no error.
EntitySave(s, entity) ==
  IF ~ValidDoc(entity.doc)
    THEN [store |-> s, outcome |-> Rejected("ValidationError")]
    ELSE [store |-> {IF d._id = entity.doc._id
                       THEN [f \in DOMAIN d |->
                               IF f \in entity.dirty THEN entity.doc[f] ELSE d[f]]
                       ELSE d : d \in s},
          outcome |-> Ok(entity)]

\* entity.remove(): delete {_id: entity._id}.
EntityRemove(s, entity) ==
  [store |-> {d \in s : d._id # entity.doc._id}, outcome |-> Ok(entity)]

Init ==
  /\ store = {EventA}
  /\ reqs = [r \in Reqs |-> Idle]
  /\ started = 0

\* ------------------------------------------------------------ the handlers
InFlight(r) == reqs[r].pc \in {"call", "settle"}
\* A new request takes the first slot that has no request in flight.
Free(r) == /\ ~InFlight(r)
           /\ r = "r2" => InFlight("r1")

Set(r, rec) == reqs' = [reqs EXCEPT ![r] = rec]

\* The router hands a request to the handler in slot r.
Dispatched(r) == started < MaxRequests /\ Free(r)

\* The handler's synchronous part ends by issuing `call` on the Event model.
Issue(r, op, params, sent, body, call) ==
  /\ started' = started + 1
  /\ Set(r, [Idle EXCEPT !.op = op, !.params = params, !.sent = sent,
                         !.body = body, !.pc = "call", !.call = call])
  /\ UNCHANGED store

\* if(req.body._id) Reflect.deleteProperty(req.body, '_id'): a list of patch
\* operations has no property _id, whatever its operations name.
StripId(body, isList) ==
  IF ~isList /\ "_id" \in DOMAIN body /\ body._id # FalsyId
    THEN [f \in DOMAIN body \ {"_id"} |-> body[f]]
    ELSE body

index(r) ==
  /\ Dispatched(r)
  /\ Issue(r, "index", "", << >>, << >>, "find")

show(r, id) ==
  /\ Dispatched(r)
  /\ Issue(r, "show", id, << >>, << >>, "findById")

create(r, body) ==
  /\ Dispatched(r)
  /\ Issue(r, "create", "", body, body, "create")

upsert(r, id, body) ==
  /\ Dispatched(r)
  /\ Issue(r, "upsert", id, body, StripId(body, FALSE), "findOneAndUpdate")

patch(r, id, patches) ==
  /\ Dispatched(r)
  /\ Issue(r, "patch", id, patches, StripId(patches, TRUE), "findById")

destroy(r, id) ==
  /\ Dispatched(r)
  /\ Issue(r, "destroy", id, << >>, << >>, "findById")

\* new RegExp(...) runs in the handler itself, outside the chain: when it
\* throws, the handler is left without a call issued or a response written.
search(r, text) ==
  /\ Dispatched(r)
  /\ IF RegExpValid(text)
       THEN Issue(r, "search", text, << >>, << >>, "find")
       ELSE /\ started' = started + 1
            /\ Set(r, [Idle EXCEPT !.op = "search", !.params = text,
                                   !.pc = "done", !.threw = TRUE])
            /\ UNCHANGED store

hosting(r, host) ==
  /\ Dispatched(r)
  /\ Issue(r, "hosting", host, << >>, << >>, "find")

going(r, participant) ==
  /\ Dispatched(r)
  /\ Issue(r, "going", participant, << >>, << >>, "find")

favorite(r, user) ==
  /\ Dispatched(r)
  /\ Issue(r, "favorite", user, << >>, << >>, "find")

\* --------------------------------------------- the store performs a call
Pending(r, call) == reqs[r].pc = "call" /\ reqs[r].call = call

Performed(r, done) ==
  /\ store' = done.store
  /\ Set(r, [reqs[r] EXCEPT !.pc = "settle", !.result = done.outcome])
  /\ UNCHANGED started

FindExec(r) ==
  /\ Pending(r, "find")
  /\ Performed(r, EventFind(store, reqs[r].op, reqs[r].params))

FindByIdExec(r) ==
  /\ Pending(r, "findById")
  /\ Performed(r, EventFindById(store, reqs[r].params, reqs[r].op = "show"))

CreateExec(r) ==
  /\ Pending(r, "create")
  /\ \E fresh \in Ids \ StoredIds(store) :
        Performed(r, EventCreate(store, reqs[r].body, fresh))

FindOneAndUpdateExec(r) ==
  /\ Pending(r, "findOneAndUpdate")
  /\ Performed(r, EventFindOneAndUpdate(store, reqs[r].params, reqs[r].body))

SaveExec(r) ==
  /\ Pending(r, "save")
  /\ Performed(r, EntitySave(store, reqs[r].entity))

RemoveExec(r) ==
  /\ Pending(r, "remove")
  /\ Performed(r, EntityRemove(store, reqs[r].entity))

\* Any call may fail in the store (connection lost, ...): nothing is written.
StoreError(r) ==
  /\ reqs[r].pc = "call"
  /\ Performed(r, [store |-> store, outcome |-> Rejected("MongoError")])

\* ------------------------------------- the chain's callbacks run (settle)
Settling(r, op) == reqs[r].pc = "settle" /\ reqs[r].op = op

Finish(r, res) ==
  /\ Set(r, [reqs[r] EXCEPT !.pc = "done", !.call = "none", !.result = NoResult,
                            !.res = res])
  /\ UNCHANGED <<store, started>>

\* .then(respondWithResult(res, statusCode)).catch(handleError(res))
RespondOrError(r, statusCode) ==
  LET q == reqs[r]
  IN  IF q.result.ok
        THEN Finish(r, respondWithResult(q.res, statusCode, q.result.value))
        ELSE Finish(r, handleError(q.res, 0, q.result.value))

\* Mutant of createSettle: the status code is left out.
createSettleDefaultStatus(r) == Settling(r, "create") /\ RespondOrError(r, 0)

indexSettle(r) == Settling(r, "index") /\ RespondOrError(r, 0)
searchSettle(r) == Settling(r, "search") /\ RespondOrError(r, 0)
hostingSettle(r) == Settling(r, "hosting") /\ RespondOrError(r, 0)
goingSettle(r) == Settling(r, "going") /\ RespondOrError(r, 0)
favoriteSettle(r) == Settling(r, "favorite") /\ RespondOrError(r, 0)
createSettle(r) == Settling(r, "create") /\ RespondOrError(r, 201)
upsertSettle(r) == Settling(r, "upsert") /\ RespondOrError(r, 0)

\* .then(handleEntityNotFound(res)).then(respondWithResult(res)).catch(...)
showSettle(r) ==
  /\ Settling(r, "show")
  /\ LET q == reqs[r]
     IN  IF q.result.ok
           THEN LET nf == handleEntityNotFound(q.res, q.result.value)
                IN  /\ Set(r, [q EXCEPT !.pc = "done", !.call = "none",
                                        !.result = NoResult, !.entity = nf.value,
                                        !.res = respondWithResult(nf.res, 0, nf.value)])
                    /\ UNCHANGED <<store, started>>
           ELSE Finish(r, handleError(q.res, 0, q.result.value))

\* patch, after findById: handleEntityNotFound, then patchUpdates, which
\* rejects (caught by handleError) or calls entity.save().
\* patch, after save: respondWithResult, or handleError.
patchSettle(r) ==
  /\ Settling(r, "patch")
  /\ LET q == reqs[r]
     IN  IF ~q.result.ok THEN Finish(r, handleError(q.res, 0, q.result.value))
         ELSE IF q.call = "save"
           THEN Finish(r, respondWithResult(q.res, 0, q.result.value))
         ELSE LET nf == handleEntityNotFound(q.res, q.result.value)
                  pu == patchUpdates(q.body, nf.value)
              IN  /\ UNCHANGED <<store, started>>
                  /\ IF pu.next = "save"
                       THEN Set(r, [q EXCEPT !.pc = "call", !.call = "save",
                                             !.result = NoResult,
                                             !.entity = pu.entity, !.res = nf.res])
                       ELSE Set(r, [q EXCEPT !.pc = "done", !.call = "none",
                                             !.result = NoResult,
                                             !.entity = pu.entity,
                                             !.res = handleError(nf.res, 0, pu.err)])

\* Mutant of destroySettle: removeEntity does not wait for entity.remove()
\* before it writes 204.
destroySettleEarly204(r) ==
  /\ Settling(r, "destroy")
  /\ LET q == reqs[r]
     IN  IF ~q.result.ok THEN Finish(r, handleError(q.res, 0, q.result.value))
         ELSE IF q.call = "remove" THEN Finish(r, q.res)
         ELSE LET nf == handleEntityNotFound(q.res, q.result.value)
              IN  /\ UNCHANGED <<store, started>>
                  /\ IF Truthy(nf.value)
                       THEN Set(r, [q EXCEPT !.pc = "call", !.call = "remove",
                                             !.result = NoResult,
                                             !.entity = nf.value,
                                             !.res = Write(nf.res, 204, Empty)])
                       ELSE Set(r, [q EXCEPT !.pc = "done", !.call = "none",
                                             !.result = NoResult,
                                             !.entity = nf.value, !.res = nf.res])

\* removeEntity(res)(entity): entity.remove() when there is an entity.
\* destroy, after findById: handleEntityNotFound, then removeEntity.
\* destroy, after remove: res.status(204).end(), or handleError.
destroySettle(r) ==
  /\ Settling(r, "destroy")
  /\ LET q == reqs[r]
     IN  IF ~q.result.ok THEN Finish(r, handleError(q.res, 0, q.result.value))
         ELSE IF q.call = "remove" THEN Finish(r, Write(q.res, 204, Empty))
         ELSE LET nf == handleEntityNotFound(q.res, q.result.value)
              IN  /\ UNCHANGED <<store, started>>
                  /\ IF Truthy(nf.value)
                       THEN Set(r, [q EXCEPT !.pc = "call", !.call = "remove",
                                             !.result = NoResult,
                                             !.entity = nf.value, !.res = nf.res])
                       ELSE Set(r, [q EXCEPT !.pc = "done", !.call = "none",
                                             !.result = NoResult,
                                             !.entity = nf.value, !.res = nf.res])

\* ------------------------------------------------------------------- Next
Next ==
  \E r \in Reqs :
    \/ index(r)
    \/ \E id \in Ids : show(r, id)
    \/ \E b \in DOMAIN Bodies : create(r, Bodies[b])
    \/ \E id \in Ids, b \in DOMAIN Bodies : upsert(r, id, Bodies[b])
    \/ \E id \in Ids, p \in DOMAIN PatchBodies : patch(r, id, PatchBodies[p])
    \/ \E id \in Ids : destroy(r, id)
    \/ \E t \in DOMAIN Texts : search(r, Texts[t])
    \/ \E u \in Users : hosting(r, u)
    \/ \E u \in Users : going(r, u)
    \/ \E u \in Users : favorite(r, u)
    \/ FindExec(r)
    \/ FindByIdExec(r)
    \/ CreateExec(r)
    \/ FindOneAndUpdateExec(r)
    \/ SaveExec(r)
    \/ RemoveExec(r)
    \/ StoreError(r)
    \/ indexSettle(r)
    \/ showSettle(r)
    \/ createSettle(r)
    \/ upsertSettle(r)
    \/ patchSettle(r)
    \/ destroySettle(r)
    \/ searchSettle(r)
    \/ hostingSettle(r)
    \/ goingSettle(r)
    \/ favoriteSettle(r)

Spec == Init /\ [][Next]_vars

\* ============================================================== the claims
Done(r) == reqs[r].pc = "done"
Statuses(res) == [i \in DOMAIN res |-> res[i].status]
\* The store performs (or fails) the pending `call` of r in this step.
Performs(r, call) == Pending(r, call) /\ reqs'[r].pc = "settle"
\* The callbacks of r's chain run in this step.
Settles(r) == reqs[r].pc = "settle" /\ reqs'[r].pc # "settle"
\* A request of r starts in this step.
Begins(r) == started' # started /\ Free(r)
\* Some step of the request in slot r.
StepOf(r) == InFlight(r) /\ reqs'[r].pc # reqs[r].pc

NotFound404 == << [status |-> 404, body |-> Empty] >>

\* C1 (as claimed): when findById reports no document for the identifier,
\* show, patch and destroy end with the single write 404 / empty body.
C1_NotFoundWritesOnly404 ==
  [][\A r \in Reqs :
       ( /\ reqs[r].op \in {"show", "patch", "destroy"}
         /\ reqs[r].call = "findById"
         /\ Settles(r)
         /\ reqs[r].result.ok
         /\ reqs[r].result.value.t = "null" )
       => /\ reqs'[r].pc = "done"
          /\ reqs'[r].res = NotFound404]_vars

\* C1: the case reached: a patch of an absent identifier has written 404 and
\* then 500.
C1_Patch404Then500 ==
  \E r \in Reqs : /\ Done(r)
                  /\ reqs[r].op = "patch"
                  /\ Statuses(reqs[r].res) = <<404, 500>>

\* C3 (as claimed): every finished run of a handler has written exactly
\* one response, a 2xx, a 404 or a 500, and no run ever writes a second.
C3_ExactlyOneResponse ==
  \A r \in Reqs :
    /\ Len(reqs[r].res) <= 1
    /\ Done(r) => /\ Len(reqs[r].res) = 1
                  /\ reqs[r].res[1].status \in {200, 201, 204, 404, 500}

\* C3: the two cases reached: a search whose text is no regular expression
\* ends with nothing written; a patch of an absent identifier writes twice.
C3_NoResponseWritten ==
  \E r \in Reqs : Done(r) /\ reqs[r].op = "search" /\ reqs[r].res = << >>

\* The identifier a request body carries: the _id field of a PUT body, the
\* value of an operation on /_id in a PATCH body.
CarriedIds(q) ==
  CASE q.op = "upsert" ->
         IF "_id" \in DOMAIN q.sent THEN {q.sent._id} \cap Ids ELSE {}
    [] q.op = "patch" ->
         {q.sent[i].value : i \in {j \in DOMAIN q.sent : q.sent[j].path = "/_id"}}
    [] OTHER -> {}

\* The documents of s other than the one with identifier id.
Others(s, id) == {d \in s : d._id # id}

\* C2 (as claimed): no step of an upsert or patch to identifier A whose body
\* carries another identifier creates or modifies any document but A's, and
\* A's document, if stored afterwards, was stored as A before or is new.
C2_BodyIdNeverRetargets ==
  [][\A r \in Reqs :
       ( /\ StepOf(r)
         /\ CarriedIds(reqs[r]) \ {reqs[r].params} # {} )
       => Others(store', reqs[r].params) = Others(store, reqs[r].params)]_vars

\* C2: the upsert half holds: an upsert of A with {_id: "b", ...} has updated A.
C2_UpsertKeepsId ==
  \E r \in Reqs : /\ Done(r)
                  /\ reqs[r].op = "upsert"
                  /\ reqs[r].params = "a"
                  /\ "_id" \in DOMAIN reqs[r].sent
                  /\ reqs[r].sent._id = "b"
                  /\ Statuses(reqs[r].res) = <<200>>
                  /\ reqs[r].res[1].body.doc._id = "a"
                  /\ StoredIds(store) = {"a"}

Fields == DOMAIN EventA
\* An operation whose path does not exist in an event.
HasNoSuchPath(b) == \E i \in DOMAIN b : PathKey(b[i].path) \notin Fields
\* An operation whose value violates the schema type of its path.
HasBadValue(b) == \E i \in DOMAIN b : b[i].path = "/host" /\ b[i].value \notin Users
InvalidPatch(b) == HasNoSuchPath(b) \/ HasBadValue(b)

\* C4 (as claimed): no step of a patch whose list holds an invalid operation
\* changes the store or calls save, and such a patch of an existing event
\* ends with the single response 500.
C4_InvalidPatchNeverSaves ==
  [][\A r \in Reqs :
       (reqs[r].op = "patch" /\ InvalidPatch(reqs[r].body) /\ StepOf(r))
       => /\ store' = store
          /\ reqs'[r].call # "save"
          /\ (reqs'[r].pc = "done" /\ reqs'[r].entity.t = "doc")
               => Statuses(reqs'[r].res) = <<500>>]_vars

\* C4 (amended): no step of a patch whose list holds an invalid operation
\* changes the store, and such a patch of an existing event ends with the
\* single response 500; save is not called when an operation's path does not
\* exist, and when it is called (every invalid operation is a schema type
\* violation) it is rejected without writing.
C4_InvalidPatchPersistsNothing ==
  [][\A r \in Reqs :
       (reqs[r].op = "patch" /\ InvalidPatch(reqs[r].body) /\ StepOf(r))
       => /\ store' = store
          /\ HasNoSuchPath(reqs[r].body) => reqs'[r].call # "save"
          /\ Performs(r, "save") => ~reqs'[r].result.ok
          /\ (reqs'[r].pc = "done" /\ reqs'[r].entity.t = "doc")
               => Statuses(reqs'[r].res) = <<500>>]_vars

\* C4: the case reached: a valid operation followed by a type violation on
\* an existing event: save was called, 500 was written, the event is as it was.
C4_TypeViolationRejectedBySave ==
  \E r \in Reqs : /\ Done(r)
                  /\ reqs[r].op = "patch"
                  /\ reqs[r].body = << SetRenamed, BadHost >>
                  /\ reqs[r].entity.t = "doc"
                  /\ reqs[r].entity.dirty = {"name", "host"}
                  /\ reqs[r].res = << [status |-> 500, body |-> ErrV("ValidationError")] >>
                  /\ store = {EventA}

\* C5: a removal the store performs leaves no document with the entity's
\* identifier; destroy writes 204 / no body, as its only response, in the
\* callback of a removal that succeeded and at no other point; an identifier
\* absent from the store stays absent until a create or an upsert of that
\* identifier is performed; and a show that finds its identifier absent
\* responds 404 / empty body.
C5_DestroyThenShow404 ==
  [][ /\ \A r \in Reqs :
           /\ (Performs(r, "remove") /\ reqs'[r].result.ok)
                => reqs[r].entity.doc._id \notin StoredIds(store')
           /\ ( /\ reqs[r].op = "destroy"
                /\ StepOf(r)
                /\ 204 \in {reqs'[r].res[i].status : i \in DOMAIN reqs'[r].res} )
                => /\ reqs[r].pc = "settle"
                   /\ reqs[r].call = "remove"
                   /\ reqs[r].result.ok
                   /\ reqs'[r].res = << [status |-> 204, body |-> Empty] >>
           /\ ( /\ reqs[r].op = "destroy"
                /\ reqs[r].call = "remove"
                /\ Settles(r)
                /\ reqs[r].result.ok )
                => reqs'[r].res = << [status |-> 204, body |-> Empty] >>
           /\ ( /\ reqs[r].op = "show"
                /\ Performs(r, "findById")
                /\ reqs'[r].result.ok
                /\ reqs[r].params \notin StoredIds(store) )
                => reqs'[r].result.value.t = "null"
           /\ ( /\ reqs[r].op = "show"
                /\ Settles(r)
                /\ reqs[r].result.ok
                /\ reqs[r].result.value.t = "null" )
                => reqs'[r].res = NotFound404
      /\ \A id \in Ids :
           (id \notin StoredIds(store) /\ id \in StoredIds(store'))
           => \E r \in Reqs : \/ Performs(r, "create")
                              \/ Performs(r, "findOneAndUpdate") /\ reqs[r].params = id
    ]_vars

\* C5: the case reached: the first request removed "a" (only a destroy that
\* goes on to answer 204 does), and the show of "a" that ran after it had
\* finished answered 404 / empty body.
C5_DestroyedThenShown ==
  /\ started = 2
  /\ reqs["r2"] = Idle
  /\ reqs["r1"].op = "show" /\ reqs["r1"].params = "a" /\ Done("r1")
  /\ reqs["r1"].res = NotFound404
  /\ "a" \notin StoredIds(store)

\* C6: save has no optimistic-concurrency check: whatever happened to the
\* stored document since the patch fetched it, the save of a patch fails
\* only in validation or in the store, and a save that succeeds has set every
\* modified path of every document with the entity's identifier, so the
\* later of two saves wins.
C6_SaveOverwritesUnchecked ==
  [][\A r \in Reqs :
       Performs(r, "save")
       => LET e == reqs[r].entity
              out == reqs'[r].result
          IN  /\ ~out.ok => out.value.name \in {"ValidationError", "MongoError"}
              /\ out.ok => \A d \in store' :
                             d._id = e.doc._id => \A f \in e.dirty : d[f] = e.doc[f]]_vars

\* C6: the lost update reached: two patches of "a" both fetched the original
\* event, both answered 200, and the stored name is that of the second only.
C6_LostUpdate ==
  /\ \A r \in Reqs : /\ Done(r)
                     /\ reqs[r].op = "patch"
                     /\ reqs[r].params = "a"
                     /\ Statuses(reqs[r].res) = <<200>>
                     /\ reqs[r].entity.fetched = EventA
  /\ reqs["r1"].body = << SetRenamed >>
  /\ reqs["r1"].res[1].body.doc.name = Renamed
  /\ reqs["r2"].body = << SetOther >>
  /\ Lookup(store, "a").doc.name = Other

\* The fields a list of operations names.
Named(b) == {PathKey(b[i].path) : i \in DOMAIN b}

\* C7 (as claimed): the save of a patch of valid operations on a stored
\* event, when the store performs it, leaves the event stored with every
\* patched field at its new value, every other field and every other
\* document as it was; and the response is 200 with the entity.
C7_ValidPatchUpdatesThatEvent ==
  [][\A r \in Reqs :
       /\ ( /\ reqs[r].op = "patch"
            /\ ~InvalidPatch(reqs[r].body)
            /\ Performs(r, "save")
            /\ reqs'[r].result.ok
            /\ reqs[r].params \in StoredIds(store) )
          => /\ reqs[r].params \in StoredIds(store')
             /\ LET old == Lookup(store, reqs[r].params).doc
                    new == Lookup(store', reqs[r].params).doc
                    b == reqs[r].body
                IN  /\ \A i \in DOMAIN b :
                         b[i].path # "/_id" => new[PathKey(b[i].path)] = b[i].value
                    /\ \A f \in Fields \ Named(b) : new[f] = old[f]
             /\ Others(store', reqs[r].params) = Others(store, reqs[r].params)
       /\ ( /\ reqs[r].op = "patch"
            /\ reqs[r].call = "save"
            /\ Settles(r)
            /\ reqs[r].result.ok )
          => reqs'[r].res = << [status |-> 200, body |-> DocV(reqs[r].entity.doc)] >>
    ]_vars

\* C7: the scenario of the spec reached: replace /name on "a" answered 200
\* with the new name, and the stored event differs from before in name only.
C7_RenameScenario ==
  \E r \in Reqs : /\ Done(r)
                  /\ reqs[r].op = "patch"
                  /\ reqs[r].body = << SetRenamed >>
                  /\ reqs[r].res =
                       << [status |-> 200, body |-> DocV([EventA EXCEPT !.name = Renamed])] >>
                  /\ store = {[EventA EXCEPT !.name = Renamed]}

\* C8: when the store performs a create and accepts it, the store holds
\* exactly one more document, whose identifier was not stored before and
\* whose fields are the submitted ones, every other document is as it was,
\* and the entity handed back is that document; the store refuses only an
\* invalid payload or in an error of its own, and then is unchanged; create
\* answers 201 with the created document in the first case, 500 with the
\* error in the second.
C8_CreateInsertsOne ==
  [][\A r \in Reqs :
       /\ Performs(r, "create")
          => LET out == reqs'[r].result
                 b == reqs[r].body
             IN  IF out.ok
                   THEN /\ out.value.doc \notin store
                        /\ out.value.doc._id \notin StoredIds(store)
                        /\ store' = store \cup {out.value.doc}
                        /\ Cardinality(store') = Cardinality(store) + 1
                        /\ \A f \in DOMAIN b : out.value.doc[f] = b[f]
                   ELSE /\ store' = store
                        /\ out.value.name = "ValidationError"
                             => \/ ~ValidFields(b)
                                \/ "_id" \in DOMAIN b /\ b._id \notin Ids
       /\ (reqs[r].op = "create" /\ Settles(r))
          => reqs'[r].res =
               IF reqs[r].result.ok
                 THEN << [status |-> 201, body |-> DocV(reqs[r].result.value.doc)] >>
                 ELSE << [status |-> 500, body |-> reqs[r].result.value] >>
    ]_vars

\* C8: the case reached: the payload {name, host} was created as "b": 201,
\* the body carries the identifier and both fields, the store holds two events.
C8_Created ==
  \E r \in Reqs :
    /\ Done(r)
    /\ reqs[r].op = "create"
    /\ reqs[r].sent = [name |-> Other, host |-> "u2"]
    /\ Statuses(reqs[r].res) = <<201>>
    /\ reqs[r].res[1].body.doc._id = "b"
    /\ reqs[r].res[1].body.doc.name = Other
    /\ reqs[r].res[1].body.doc.host = "u2"
    /\ store = {EventA, reqs[r].res[1].body.doc}

\* C9: upsert never writes 404; when the store performs the update and
\* accepts it, an identifier that was absent is inserted under the id of the
\* request path (one more document), an identifier that was present has its
\* document updated in place (as many documents as before), no other
\* document changes, and the entity handed back is the stored, updated
\* document; when the store refuses, nothing changes; upsert answers 200
\* with the entity in the first case, 500 with the error in the second.
C9_UpsertInsertsOrUpdates ==
  [][\A r \in Reqs :
       /\ reqs'[r].op = "upsert"
          => 404 \notin {reqs'[r].res[i].status : i \in DOMAIN reqs'[r].res}
       /\ Performs(r, "findOneAndUpdate")
          => LET out == reqs'[r].result
                 id == reqs[r].params
                 b == reqs[r].body
             IN  IF out.ok
                   THEN /\ out.value.t = "doc"
                        /\ out.value.doc._id = id
                        /\ out.value.doc \in store'
                        /\ \A f \in DOMAIN b : out.value.doc[f] = b[f]
                        /\ Others(store', id) = Others(store, id)
                        /\ Cardinality(store') =
                             IF id \in StoredIds(store)
                               THEN Cardinality(store)
                               ELSE Cardinality(store) + 1
                        /\ id \in StoredIds(store)
                             => \A f \in Fields \ DOMAIN b :
                                  out.value.doc[f] = Lookup(store, id).doc[f]
                   ELSE store' = store
       /\ (reqs[r].op = "upsert" /\ Settles(r))
          => reqs'[r].res =
               IF reqs[r].result.ok /\ reqs[r].result.value.t = "doc"
                 THEN << [status |-> 200, body |-> DocV(reqs[r].result.value.doc)] >>
                 ELSE << [status |-> 500, body |-> reqs[r].result.value] >>
    ]_vars

\* C9: the case reached: an upsert of the absent "b" answered 200 with a
\* document "b", and the store holds two events.
C9_UpsertInserted ==
  \E r \in Reqs :
    /\ Done(r)
    /\ reqs[r].op = "upsert"
    /\ reqs[r].params = "b"
    /\ Statuses(reqs[r].res) = <<200>>
    /\ reqs[r].res[1].body.doc._id = "b"
    /\ store = {EventA, reqs[r].res[1].body.doc}

ReadOps == {"index", "show", "search", "hosting", "going", "favorite"}

\* C10: no step of index, show, search, hosting, going or favorite, from
\* the start of the handler to its response, changes the store.
C10_ReadsLeaveStore ==
  [][\A r \in Reqs :
       \/ Begins(r) /\ reqs'[r].op \in ReadOps
       \/ StepOf(r) /\ reqs[r].op \in ReadOps
       => store' = store]_vars

\* C10: the case reached: hosting "u1" answered 200 with the event, its host
\* expanded in the response, and the stored event still holds the reference.
C10_HostingAnswered ==
  \E r \in Reqs :
    /\ Done(r)
    /\ reqs[r].op = "hosting"
    /\ reqs[r].res =
         << [status |-> 200, body |-> ListV({[EventA EXCEPT !.host = UsersColl["u1"]]})] >>
    /\ store = {EventA}
====
